---- MODULE Spec2Model ----
(***************************************************************************)
(* A model of custom_csv.py: CustomCsvReader (an iterator that parses one  *)
(* row per __next__ call, reading its file object one character at a      *)
(* time) and CustomCsvWriter (writerow / writerows with quoting).         *)
(*                                                                         *)
(* Text is a sequence of one-character strings; the value read(1) returns *)
(* at end of file is the empty string "", as in Python.                   *)
(***************************************************************************)
EXTENDS Naturals, Sequences, FiniteSets

VARIABLES
    buf,          \* contents of file_obj (the source being read / the sink written)
    pos,          \* file_obj's read position: characters consumed so far
    delimiter,    \* self.delimiter
    quotechar,    \* self.quotechar
    _eof,         \* self._eof of the reader
    pc,           \* "new": reader not constructed; "idle": between calls;
                  \* "loop": inside _read_next_row's while loop
    in_quotes,    \* local of _read_next_row
    field_chars,  \* local of _read_next_row
    row,          \* local of _read_next_row
    out,          \* the rows __next__ has returned, in order
    closes,       \* for each returned row: how it was closed and where
    stops,        \* number of StopIteration raised by __next__
    reads,        \* number of file_obj.read(1) calls made
    phase,        \* position of the driver: "reader" or a stage of test_round_trip
    data,         \* rows handed to writerows (original_data)
    widx,         \* rows of the current writerows call already written
    writes,       \* number of file_obj.write calls made on the current sink
    read_data1,   \* result of the first list(reader) in test_round_trip
    other         \* a second instance with its own file object, while it is not
                  \* the one running: its attributes, locals and file

vars == <<buf, pos, delimiter, quotechar, _eof, pc, in_quotes, field_chars, row,
          out, closes, stops, reads, phase, data, widx, writes, read_data1, other>>

readerVars == <<pos, _eof, pc, in_quotes, field_chars, row, out, closes, stops, reads>>
driverVars == <<phase, data, widx, writes, read_data1, other>>

----------------------------------------------------------------------------
(* Bounds and alphabets *)

MaxLen == 4        \* longest enumerated source text
MaxStops == 2      \* calls made after the first StopIteration are capped
MaxSize == 6       \* size of the enumerated row sequences handed to writerows:
                   \* one per row, one per field, one per character

LF == "\n"
CR == "\r"
Comma == ","
DQuote == "\""

Chars == {Comma, DQuote, LF, CR, "a"}
ConfigChars == {Comma, DQuote, LF, CR}

RECURSIVE TextsOfLen(_)
TextsOfLen(n) ==
    IF n = 0 THEN {<<>>}
    ELSE {Append(t, c) : t \in TextsOfLen(n - 1), c \in Chars}

Texts == UNION {TextsOfLen(n) : n \in 0..MaxLen}

(* Texts quoted in the documentation of the format. *)
TextCRLF == <<"a", CR, LF, "b", CR, LF>>
TextDoubled ==
    <<"a", Comma, DQuote, "h", "e", " ", "s", "a", "i", "d", " ", DQuote, DQuote,
      "h", "i", DQuote, DQuote, DQuote, Comma, "c">>
TextMidQuote == <<"a", "b", DQuote, "c", Comma, "d">>
TextAfterClose == <<DQuote, "a", "b", DQuote, "c", Comma, "d">>
TextEmptyFields == <<"a", Comma, Comma, "c", LF>>
ExampleTexts == {TextCRLF, TextDoubled, TextMidQuote, TextAfterClose, TextEmptyFields}

ValidConfig(d, q) == d # q /\ d \notin {LF, CR} /\ q \notin {LF, CR}
DefaultConfig == delimiter = Comma /\ quotechar = DQuote

Last(s) == s[Len(s)]

(* No second instance exists *)
NoInstance == [id |-> 0]

----------------------------------------------------------------------------
(* CustomCsvReader *)

(* file_obj.read(1) at position p: the next character, or "" at end of file. *)
ReadChar(p) == IF p < Len(buf) THEN buf[p + 1] ELSE ""
Advance(p) == IF p < Len(buf) THEN p + 1 ELSE p

(* What one iteration of the while loop leaves behind. ret is "continue"    *)
(* (next iteration), "row" (return row) or "none" (return None); by is how  *)
(* a returned row was closed: "nl" by a row terminator, "eof" by the end of *)
(* the source.                                                              *)
Outcome(iq, fc, rw, p, rd, e, ret, by) ==
    [in_quotes |-> iq, field_chars |-> fc, row |-> rw, pos |-> p, reads |-> rd,
     _eof |-> e, ret |-> ret, by |-> by]

(* Mutant: the end of the source closes a row even when nothing was read    *)
(* for it, and is not remembered.                                           *)
AtEndOfSource_AlwaysRow ==
    Outcome(in_quotes, field_chars, Append(row, field_chars), pos, reads + 1,
            _eof, "row", "eof")

(* Mutant: a row closed by the end of the source leaves _eof unset. *)
AtEndOfSource_RowLeavesFlag ==
    IF in_quotes \/ field_chars # <<>> \/ row # <<>>
    THEN Outcome(in_quotes, field_chars, Append(row, field_chars), pos, reads + 1,
                 _eof, "row", "eof")
    ELSE Outcome(in_quotes, field_chars, row, pos, reads + 1, TRUE, "none", "")

(* Mutant: a row in progress outside quotes is dropped at the end of the    *)
(* source.                                                                  *)
AtEndOfSource_DropsPartial ==
    IF in_quotes
    THEN Outcome(in_quotes, field_chars, Append(row, field_chars), pos, reads + 1,
                 TRUE, "row", "eof")
    ELSE Outcome(in_quotes, field_chars, row, pos, reads + 1, TRUE, "none", "")

(* ch == "" *)
AtEndOfSource ==
    IF in_quotes
    THEN Outcome(in_quotes, field_chars, Append(row, field_chars), pos, reads + 1,
                 TRUE, "row", "eof")
    ELSE IF field_chars # <<>> \/ row # <<>>
    THEN Outcome(in_quotes, field_chars, Append(row, field_chars), pos, reads + 1,
                 TRUE, "row", "eof")
    ELSE Outcome(in_quotes, field_chars, row, pos, reads + 1, TRUE, "none", "")

(* Mutant: a quote after a quote inside quotes closes the field like any    *)
(* other character instead of standing for one literal quote.               *)
AtQuoteInQuotes_NoDoubling ==
    LET next_ch == ReadChar(pos + 1)
        p2 == Advance(pos + 1)
    IN  IF next_ch = delimiter
        THEN Outcome(FALSE, <<>>, Append(row, field_chars), p2, reads + 2,
                     _eof, "continue", "")
        ELSE IF next_ch \in {LF, CR}
        THEN Outcome(FALSE, field_chars, Append(row, field_chars), p2, reads + 2,
                     _eof, "row", "nl")
        ELSE IF next_ch = ""
        THEN Outcome(FALSE, field_chars, Append(row, field_chars), p2, reads + 2,
                     TRUE, "row", "eof")
        ELSE Outcome(FALSE, Append(field_chars, next_ch), row, p2, reads + 2,
                     _eof, "continue", "")

(* Mutant: an ordinary character right after a closing quote is dropped. *)
AtQuoteInQuotes_DropsAfterClose ==
    LET next_ch == ReadChar(pos + 1)
        p2 == Advance(pos + 1)
    IN  IF next_ch = quotechar
        THEN Outcome(in_quotes, Append(field_chars, quotechar), row, p2, reads + 2,
                     _eof, "continue", "")
        ELSE IF next_ch = delimiter
        THEN Outcome(FALSE, <<>>, Append(row, field_chars), p2, reads + 2,
                     _eof, "continue", "")
        ELSE IF next_ch \in {LF, CR}
        THEN Outcome(FALSE, field_chars, Append(row, field_chars), p2, reads + 2,
                     _eof, "row", "nl")
        ELSE IF next_ch = ""
        THEN Outcome(FALSE, field_chars, Append(row, field_chars), p2, reads + 2,
                     TRUE, "row", "eof")
        ELSE Outcome(FALSE, field_chars, row, p2, reads + 2, _eof, "continue", "")

(* ch == self.quotechar while in_quotes: the inline second read *)
AtQuoteInQuotes ==
    LET next_ch == ReadChar(pos + 1)
        p2 == Advance(pos + 1)
    IN  IF next_ch = quotechar
        THEN Outcome(in_quotes, Append(field_chars, quotechar), row, p2, reads + 2,
                     _eof, "continue", "")
        ELSE IF next_ch = delimiter
        THEN Outcome(FALSE, <<>>, Append(row, field_chars), p2, reads + 2,
                     _eof, "continue", "")
        ELSE IF next_ch \in {LF, CR}
        THEN Outcome(FALSE, field_chars, Append(row, field_chars), p2, reads + 2,
                     _eof, "row", "nl")
        ELSE IF next_ch = ""
        THEN Outcome(FALSE, field_chars, Append(row, field_chars), p2, reads + 2,
                     TRUE, "row", "eof")
        ELSE Outcome(FALSE, Append(field_chars, next_ch), row, p2, reads + 2,
                     _eof, "continue", "")

(* Mutant: the test on field_chars is inverted. *)
AtQuoteOutsideQuotes_Inverted ==
    IF field_chars # <<>>
    THEN Outcome(TRUE, field_chars, row, pos + 1, reads + 1, _eof, "continue", "")
    ELSE Outcome(in_quotes, Append(field_chars, quotechar), row, pos + 1, reads + 1,
                 _eof, "continue", "")

(* ch == self.quotechar while not in_quotes *)
AtQuoteOutsideQuotes ==
    IF field_chars = <<>>
    THEN Outcome(TRUE, field_chars, row, pos + 1, reads + 1, _eof, "continue", "")
    ELSE Outcome(in_quotes, Append(field_chars, quotechar), row, pos + 1, reads + 1,
                 _eof, "continue", "")

(* Mutant: a delimiter that follows no character closes no field. *)
AtDelimiter_SkipsEmpty ==
    IF field_chars = <<>>
    THEN Outcome(in_quotes, <<>>, row, pos + 1, reads + 1, _eof, "continue", "")
    ELSE Outcome(in_quotes, <<>>, Append(row, field_chars), pos + 1, reads + 1,
                 _eof, "continue", "")

(* ch == self.delimiter and not in_quotes *)
AtDelimiter ==
    Outcome(in_quotes, <<>>, Append(row, field_chars), pos + 1, reads + 1,
            _eof, "continue", "")

(* Mutant: the character after a row terminator is read and dropped with   *)
(* it.                                                                      *)
AtNewline_SwallowsNext ==
    Outcome(in_quotes, field_chars, Append(row, field_chars), Advance(pos + 1), reads + 2,
            _eof, "row", "nl")

(* Mutant: the row terminator is kept in the field it closes. *)
AtNewline_KeepsTerminator ==
    Outcome(in_quotes, field_chars, Append(row, Append(field_chars, ReadChar(pos))),
            pos + 1, reads + 1, _eof, "row", "nl")

(* ch in ("\n", "\r") and not in_quotes *)
AtNewline ==
    Outcome(in_quotes, field_chars, Append(row, field_chars), pos + 1, reads + 1,
            _eof, "row", "nl")

(* field_chars.append(ch) *)
AtOther(ch) ==
    Outcome(in_quotes, Append(field_chars, ch), row, pos + 1, reads + 1,
            _eof, "continue", "")

(* One iteration of the while loop of _read_next_row. *)
Iteration ==
    LET ch == ReadChar(pos)
    IN  IF ch = "" THEN AtEndOfSource
        ELSE IF ch = quotechar
        THEN (IF in_quotes THEN AtQuoteInQuotes ELSE AtQuoteOutsideQuotes)
        ELSE IF ch = delimiter /\ ~in_quotes THEN AtDelimiter
        ELSE IF ch \in {LF, CR} /\ ~in_quotes THEN AtNewline
        ELSE AtOther(ch)

(* CustomCsvReader(file_obj, delimiter, quotechar) *)
Construct(d, q) ==
    /\ pc = "new"
    /\ delimiter' = d
    /\ quotechar' = q
    /\ _eof' = FALSE
    /\ pc' = "idle"
    /\ UNCHANGED <<in_quotes, field_chars, row, out, closes, stops, reads>>

(* __next__ is called: _read_next_row starts. With _eof set it returns None *)
(* at once and __next__ raises StopIteration; otherwise the locals are set  *)
(* up and the loop is entered.                                              *)
CallNext ==
    /\ pc = "idle"
    /\ IF _eof
       THEN /\ stops' = stops + 1
            /\ UNCHANGED <<pc, in_quotes, field_chars, row>>
       ELSE /\ pc' = "loop"
            /\ in_quotes' = FALSE
            /\ field_chars' = <<>>
            /\ row' = <<>>
            /\ UNCHANGED stops
    /\ UNCHANGED <<buf, pos, delimiter, quotechar, _eof, out, closes, reads>>

(* One iteration of the loop, up to its continue or return; on return the   *)
(* row goes to the caller of __next__, or StopIteration is raised for None. *)
ReadStep ==
    /\ pc = "loop"
    /\ LET o == Iteration
       IN  /\ pos' = o.pos
           /\ reads' = o.reads
           /\ _eof' = o._eof
           /\ IF o.ret = "continue"
              THEN /\ pc' = "loop"
                   /\ in_quotes' = o.in_quotes
                   /\ field_chars' = o.field_chars
                   /\ row' = o.row
                   /\ UNCHANGED <<out, closes, stops>>
              ELSE /\ pc' = "idle"
                   /\ in_quotes' = FALSE
                   /\ field_chars' = <<>>
                   /\ row' = <<>>
                   /\ IF o.ret = "row"
                      THEN /\ out' = Append(out, o.row)
                           /\ closes' = Append(closes, [by |-> o.by, at |-> o.pos])
                           /\ UNCHANGED stops
                      ELSE /\ stops' = stops + 1
                           /\ UNCHANGED <<out, closes>>
    /\ UNCHANGED <<buf, delimiter, quotechar>>

----------------------------------------------------------------------------
(* The reader over an arbitrary source *)

Init ==
    /\ buf \in Texts \cup ExampleTexts
    /\ pos = 0
    /\ delimiter = Comma
    /\ quotechar = DQuote
    /\ _eof = FALSE
    /\ pc = "new"
    /\ in_quotes = FALSE
    /\ field_chars = <<>>
    /\ row = <<>>
    /\ out = <<>>
    /\ closes = <<>>
    /\ stops = 0
    /\ reads = 0
    /\ phase = "reader"
    /\ data = <<>>
    /\ widx = 0
    /\ writes = 0
    /\ read_data1 = <<>>
    /\ other = NoInstance

NewReader ==
    /\ \E d \in ConfigChars, q \in ConfigChars : Construct(d, q)
    /\ UNCHANGED <<buf, pos>>
    /\ UNCHANGED driverVars
NextRow == stops < MaxStops /\ CallNext /\ UNCHANGED driverVars
LoopStep == ReadStep /\ UNCHANGED driverVars

Next == NewReader \/ NextRow \/ LoopStep

Spec == Init /\ [][Next]_vars

----------------------------------------------------------------------------
(* CustomCsvWriter *)

Contains(s, c) == \E i \in 1..Len(s) : s[i] = c

(* Mutant: only the first occurrence is replaced. *)
Replace_FirstOnly(s, old, new) ==
    IF \E i \in 1..Len(s) : s[i] = old
    THEN LET i == CHOOSE i \in 1..Len(s) : s[i] = old /\ \A j \in 1..(i - 1) : s[j] # old
         IN  SubSeq(s, 1, i - 1) \o new \o SubSeq(s, i + 1, Len(s))
    ELSE s

(* field.replace(old, new) for a one-character old *)
RECURSIVE Replace(_, _, _)
Replace(s, old, new) ==
    IF s = <<>> THEN <<>>
    ELSE (IF Head(s) = old THEN new ELSE <<Head(s)>>) \o Replace(Tail(s), old, new)

(* sep.join(parts) *)
RECURSIVE Join(_, _)
Join(sep, parts) ==
    IF parts = <<>> THEN <<>>
    ELSE IF Len(parts) = 1 THEN parts[1]
    ELSE parts[1] \o <<sep>> \o Join(sep, Tail(parts))

(* str(value) of a value that is a string already *)
Str(value) == value

(* Mutant: the delimiter alone does not make a field need quotes. *)
_escape_field_NoDelimiter(field) ==
    LET needs_quotes ==
            \/ Contains(field, quotechar)
            \/ Contains(field, LF)
            \/ Contains(field, CR)
    IN  IF needs_quotes
        THEN LET escaped == Replace(field, quotechar, <<quotechar, quotechar>>)
             IN  <<quotechar>> \o escaped \o <<quotechar>>
        ELSE field

(* Mutant: a carriage return alone does not make a field need quotes. *)
_escape_field_NoCR(field) ==
    LET needs_quotes ==
            \/ Contains(field, delimiter)
            \/ Contains(field, quotechar)
            \/ Contains(field, LF)
    IN  IF needs_quotes
        THEN LET escaped == Replace(field, quotechar, <<quotechar, quotechar>>)
             IN  <<quotechar>> \o escaped \o <<quotechar>>
        ELSE field

_escape_field(field) ==
    LET needs_quotes ==
            \/ Contains(field, delimiter)
            \/ Contains(field, quotechar)
            \/ Contains(field, LF)
            \/ Contains(field, CR)
    IN  IF needs_quotes
        THEN LET escaped == Replace(field, quotechar, <<quotechar, quotechar>>)
             IN  <<quotechar>> \o escaped \o <<quotechar>>
        ELSE field

(* The line writerow hands to file_obj.write *)
Line(r) ==
    LET escaped_fields == [i \in 1..Len(r) |-> _escape_field(Str(r[i]))]
    IN  Join(delimiter, escaped_fields) \o <<LF>>

(* Mutant: the write replaces what the sink holds. *)
writerow_Overwrites(r) ==
    /\ buf' = Line(r)
    /\ writes' = writes + 1

(* writerow(r): one write, appended to the sink *)
writerow(r) ==
    /\ buf' = buf \o Line(r)
    /\ writes' = writes + 1

----------------------------------------------------------------------------
(* test_round_trip: write, read, write what was read, read again *)

RECURSIVE RowsOfSize(_)
RowsOfSize(n) ==
    IF n = 0 THEN {}
    ELSE IF n = 1 THEN {<<>>}
    ELSE UNION {{<<f>> \o r : f \in TextsOfLen(k), r \in RowsOfSize(n - 1 - k)} :
                k \in 0..(n - 2)}

RECURSIVE RowSeqsOfSize(_)
RowSeqsOfSize(n) ==
    IF n = 0 THEN {<<>>}
    ELSE UNION {{<<r>> \o R : r \in RowsOfSize(w), R \in RowSeqsOfSize(n - w)} :
                w \in 1..n}

RowSeqs == UNION {RowSeqsOfSize(n) : n \in 0..MaxSize}

(* Rows used by the documentation and the tests of the format. *)
DataEmptyFields == << <<<<"a">>, <<>>, <<"c">>>> >>
DataEmbeddedNewline ==
    << <<<<"x">>, <<"l", "i", "n", "e", "1", LF, "l", "i", "n", "e", "2">>>> >>
(* original_data of test_round_trip *)
TestRoundTripData ==
    <<
       <<<<"N", "a", "m", "e">>,
         <<"V", "a", "l", "u", "e">>,
         <<"N", "o", "t", "e", "s">>>>,
       <<<<"T", "e", "s", "t", "1">>,
         <<"v", "a", "l", "u", "e", Comma, " ", "w", "i", "t", "h", " ", "c", "o", "m", "m", "a">>,
         <<"L", "i", "n", "e", "1", LF, "L", "i", "n", "e", "2">>>>,
       <<<<"T", "e", "s", "t", "2">>,
         <<"n", "o", "r", "m", "a", "l">>,
         <<"H", "a", "s", " ", DQuote, "q", "u", "o", "t", "e", "s", DQuote>>>>
    >>
ExampleData == {DataEmptyFields, DataEmbeddedNewline, TestRoundTripData}

InitRT ==
    /\ data \in RowSeqs \cup ExampleData
    /\ buf = <<>>
    /\ pos = 0
    /\ delimiter = Comma
    /\ quotechar = DQuote
    /\ _eof = FALSE
    /\ pc = "new"
    /\ in_quotes = FALSE
    /\ field_chars = <<>>
    /\ row = <<>>
    /\ out = <<>>
    /\ closes = <<>>
    /\ stops = 0
    /\ reads = 0
    /\ phase = "write1"
    /\ widx = 0
    /\ writes = 0
    /\ read_data1 = <<>>
    /\ other = NoInstance

(* The rows the current writerows call iterates over *)
Writing == IF phase = "write1" THEN data ELSE read_data1

(* One iteration of writerows: writerow of the next row *)
WriteNext ==
    /\ phase \in {"write1", "write2"}
    /\ widx < Len(Writing)
    /\ writerow(Writing[widx + 1])
    /\ widx' = widx + 1
    /\ UNCHANGED <<pos, delimiter, quotechar, _eof, pc, in_quotes, field_chars, row,
                   out, closes, stops, reads, phase, data, read_data1, other>>

(* buffer.seek(0); reader = CustomCsvReader(buffer) *)
Rewind ==
    /\ phase \in {"write1", "write2"}
    /\ widx = Len(Writing)
    /\ phase' = (IF phase = "write1" THEN "read1" ELSE "read2")
    /\ pos' = 0
    /\ Construct(Comma, DQuote)
    /\ UNCHANGED <<buf, data, widx, writes, read_data1, other>>

(* list(reader): __next__ until it raises StopIteration *)
ListNext ==
    /\ phase \in {"read1", "read2"}
    /\ stops = 0
    /\ CallNext
    /\ UNCHANGED driverVars

ListStep ==
    /\ phase \in {"read1", "read2"}
    /\ ReadStep
    /\ UNCHANGED driverVars

(* read_data1 = list(reader1); buffer2 = io.StringIO(); writer2 = CustomCsvWriter(buffer2) *)
SecondPass ==
    /\ phase = "read1"
    /\ pc = "idle"
    /\ stops = 1
    /\ read_data1' = out
    /\ phase' = "write2"
    /\ buf' = <<>>
    /\ pos' = 0
    /\ widx' = 0
    /\ writes' = 0
    /\ pc' = "new"
    /\ _eof' = FALSE
    /\ out' = <<>>
    /\ closes' = <<>>
    /\ stops' = 0
    /\ reads' = 0
    /\ UNCHANGED <<delimiter, quotechar, in_quotes, field_chars, row, data, other>>

(* read_data2 = list(reader2) *)
Finish ==
    /\ phase = "read2"
    /\ pc = "idle"
    /\ stops = 1
    /\ phase' = "done"
    /\ UNCHANGED <<buf, pos, delimiter, quotechar, _eof, pc, in_quotes, field_chars, row,
                   out, closes, stops, reads, data, widx, writes, read_data1, other>>

NextRT == WriteNext \/ Rewind \/ ListNext \/ ListStep \/ SecondPass \/ Finish

RoundTrip == InitRT /\ [][NextRT]_vars

----------------------------------------------------------------------------
(* Round trip and re-encoding (test_round_trip) *)

AfterFirstRead == phase \in {"write2", "read2", "done"}
NoEmptyRow(R) == \A i \in 1..Len(R) : R[i] # <<>>

(* C1, as stated: for every sequence of rows R, rows of any length (zero    *)
(* fields included), writing R into an empty sink under the default         *)
(* configuration and reading the text back to end-of-stream yields R.       *)
C1_RoundTripAnyRows == AfterFirstRead => read_data1 = data

(* C1, amended: for every sequence of rows R in which every row has at      *)
(* least one field, writing R into an empty sink under the default          *)
(* configuration and reading the text back to end-of-stream yields exactly  *)
(* R, row for row and field for field.                                      *)
C1_RoundTripNonEmptyRows == (AfterFirstRead /\ NoEmptyRow(data)) => read_data1 = data

(* C1 witness: the rows of the test, with a delimiter, a quote and a line   *)
(* feed inside fields, have been written and read back.                     *)
C1_Witness ==
    phase = "write2" /\ data = TestRoundTripData /\ read_data1 = TestRoundTripData

(* C2: with R1 = read(write(R)) and R2 = read(write(R1)), R2 = R1, whether  *)
(* or not R1 equals R.                                                      *)
C2_ReencodingIdempotent == phase = "done" => out = read_data1

(* C2 witness: a second pass has finished on rows whose first read did not  *)
(* give back what was written.                                              *)
C2_Witness == phase = "done" /\ read_data1 # data /\ out = read_data1

----------------------------------------------------------------------------
(* Writer escaping policy *)

C3_Special(c) == c \in {delimiter, quotechar, LF, CR}
C3_QuotesBefore(f, i) == Cardinality({j \in 1..i : f[j] = quotechar})

(* The field as the policy words it: wrapped in quotes with every quote     *)
(* inside doubled when it holds a special character, verbatim otherwise.    *)
C3_Emitted(f) ==
    IF \E i \in 1..Len(f) : C3_Special(f[i])
    THEN LET n == Len(f) + C3_QuotesBefore(f, Len(f))
             inner == [k \in 1..n |->
                         IF \E i \in 1..Len(f) : i + C3_QuotesBefore(f, i - 1) = k
                         THEN f[CHOOSE i \in 1..Len(f) : i + C3_QuotesBefore(f, i - 1) = k]
                         ELSE quotechar]
         IN  <<quotechar>> \o inner \o <<quotechar>>
    ELSE f

RECURSIVE C3_Joined(_, _)
C3_Joined(r, k) ==
    IF k = 0 THEN <<>>
    ELSE IF k = 1 THEN C3_Emitted(r[1])
    ELSE C3_Joined(r, k - 1) \o <<delimiter>> \o C3_Emitted(r[k])

RECURSIVE C3_Sink(_, _)
C3_Sink(R, n) ==
    IF n = 0 THEN <<>>
    ELSE C3_Sink(R, n - 1) \o C3_Joined(R[n], Len(R[n])) \o <<LF>>

(* C3: writerow emits each field wrapped in quotes with every quote inside  *)
(* doubled if and only if it contains the delimiter, the quote character,   *)
(* LF or CR, and verbatim otherwise; the line is the emitted fields joined  *)
(* by one delimiter and followed by exactly one LF; writing ["a", "", "c"]  *)
(* emits a,,c LF.                                                           *)
C3_EscapingPolicy ==
    /\ phase \in {"write1", "write2"} => buf = C3_Sink(Writing, widx)
    /\ (phase = "write1" /\ data = DataEmptyFields /\ widx = 1) => buf = TextEmptyFields

(* C3 witness: a row with a verbatim field and a field holding a quote has  *)
(* been written.                                                            *)
C3_Witness ==
    /\ phase = "write1"
    /\ widx = 1
    /\ data = << <<<<"a">>, <<DQuote>>>> >>
    /\ buf = <<"a", Comma, DQuote, DQuote, DQuote, DQuote, LF>>

----------------------------------------------------------------------------
(* Row terminators and the end of the source *)

ReachedEnd == stops >= 1

(* A text of lines each terminated by CR LF, with no quote character in it. *)
C4_CRLFLines ==
    /\ buf # <<>>
    /\ Last(buf) = LF
    /\ \A i \in 1..Len(buf) :
          /\ buf[i] # quotechar
          /\ buf[i] = CR => (i < Len(buf) /\ buf[i + 1] = LF)
          /\ buf[i] = LF => (i > 1 /\ buf[i - 1] = CR)
C4_LineCount == Cardinality({i \in 1..Len(buf) : buf[i] = CR})

(* C4: outside a quoted field CR LF terminates exactly one row; a source    *)
(* whose lines each end in CR LF yields exactly one row per line, with no   *)
(* empty row between lines or after the last line.                          *)
C4_CRLFOneRowPerLine ==
    (ReachedEnd /\ ValidConfig(delimiter, quotechar) /\ C4_CRLFLines)
        => Len(out) = C4_LineCount

(* C5: (a) a source that ends while a row is in progress still yields that  *)
(* row: when end-of-stream is signalled the last returned row closes at the *)
(* end of the source, so no trailing characters are dropped; (b) no row is  *)
(* returned after a row that closes at the last character of the source.    *)
C5_EndOfStream ==
    /\ (ReachedEnd /\ buf # <<>>) => (out # <<>> /\ Last(closes).at = Len(buf))
    /\ \A i \in 1..Len(closes) : closes[i].by = "eof" => closes[i].at = Len(buf)
    /\ \A i \in 1..Len(closes) : closes[i].at = Len(buf) => i = Len(closes)

(* C5 witness: a source without a final terminator has given its last row,  *)
(* closed by the end of the source, after a row closed by a terminator.     *)
C5_Witness ==
    /\ ReachedEnd
    /\ Len(out) = 2
    /\ closes[1].by = "nl"
    /\ closes[2].by = "eof"
    /\ Last(buf) \notin {LF, CR}

(* The other case of C5: the source ends with an unquoted terminator, and   *)
(* end-of-stream follows the row it closes.                                 *)
C5_BoundaryCase == ReachedEnd /\ out # <<>> /\ Last(closes) = [by |-> "nl", at |-> Len(buf)]

----------------------------------------------------------------------------
(* Totality, one row per call, sticky end-of-stream *)

FairSpec == Spec /\ WF_vars(NewReader) /\ WF_vars(NextRow) /\ WF_vars(LoopStep)

(* C6: on every character sequence, malformed quoting included, every       *)
(* iteration of the parse has a defined outcome, every call that entered    *)
(* the loop returns, the rows returned are finitely many (at most one per   *)
(* character, plus one) and end-of-stream is reached.                       *)
C6_TotalAndTerminates ==
    /\ [](pc = "loop" => ENABLED LoopStep)
    /\ [](Len(out) <= Len(buf) + 1)
    /\ (pc = "loop") ~> (pc = "idle")
    /\ <>ReachedEnd

(* C6 witness: end-of-stream after a quoted field that is never closed.     *)
C6_Witness ==
    /\ DefaultConfig
    /\ buf = <<DQuote, DQuote, DQuote, "a">>
    /\ ReachedEnd
    /\ out = << <<<<DQuote, "a">>>> >>

ClosedByEndOfSource == closes # <<>> /\ Last(closes).by = "eof"

(* C7: a call returns exactly one row or the end-of-stream signal; once a   *)
(* call has signalled end-of-stream, or has returned a row closed by the    *)
(* end of the source, every later call signals end-of-stream, returns no    *)
(* row and reads nothing from the source.                                   *)
C7_OneRowPerCallStickyEnd ==
    /\ [][(pc = "loop" /\ pc' = "idle") =>
            \/ (Len(out') = Len(out) + 1 /\ stops' = stops)
            \/ (out' = out /\ stops' = stops + 1)]_vars
    /\ [][(pc = "idle" /\ (ReachedEnd \/ ClosedByEndOfSource)) =>
            /\ pc' = "idle"
            /\ stops' = stops + 1
            /\ out' = out
            /\ reads' = reads
            /\ pos' = pos]_vars

(* C7 witness: two calls have signalled end-of-stream after a row closed by *)
(* the end of the source.                                                   *)
C7_Witness == stops = 2 /\ ClosedByEndOfSource /\ pc = "idle"

----------------------------------------------------------------------------
(* Quotes *)

(* C8: inside a quoted field two consecutive quote characters add exactly   *)
(* one quote character to the field and leave the reader inside the quoted  *)
(* field; a,"he said ""hi""",c reads as the row [a, he said "hi", c].       *)
C8_DoubledQuoteDecode ==
    /\ [][(pc = "loop" /\ in_quotes /\ ReadChar(pos) = quotechar
              /\ ReadChar(pos + 1) = quotechar) =>
            /\ pc' = "loop"
            /\ in_quotes'
            /\ field_chars' = Append(field_chars, quotechar)
            /\ row' = row
            /\ out' = out
            /\ pos' = pos + 2]_vars
    /\ []((DefaultConfig /\ buf = TextDoubled /\ ReachedEnd) =>
            out = << <<<<"a">>,
                       <<"h", "e", " ", "s", "a", "i", "d", " ", DQuote, "h", "i", DQuote>>,
                       <<"c">>>> >>)

(* C8 witness: the documented text has been read to end-of-stream, its      *)
(* doubled quotes decoded.                                                  *)
C8_Witness ==
    /\ DefaultConfig
    /\ buf = TextDoubled
    /\ ReachedEnd
    /\ Len(out) = 1
    /\ out[1][2] = <<"h", "e", " ", "s", "a", "i", "d", " ", DQuote, "h", "i", DQuote>>

(* C9: a quote character read outside a quoted field opens quoting if and   *)
(* only if no character has been accumulated for the current field;         *)
(* otherwise it is appended to the field as a literal and neither splits    *)
(* the field nor changes the quoting state; ab"c,d reads as [ab"c, d].      *)
C9_QuoteOnlyAtFieldStart ==
    /\ [][(pc = "loop" /\ ~in_quotes /\ ReadChar(pos) = quotechar) =>
            /\ pc' = "loop"
            /\ row' = row
            /\ out' = out
            /\ pos' = pos + 1
            /\ in_quotes' = (field_chars = <<>>)
            /\ field_chars' =
                  (IF field_chars = <<>> THEN <<>> ELSE Append(field_chars, quotechar))]_vars
    /\ []((DefaultConfig /\ buf = TextMidQuote /\ ReachedEnd) =>
            out = << <<<<"a", "b", DQuote, "c">>, <<"d">>>> >>)

(* C9 witness: the documented text has been read, the quote in the middle   *)
(* of its first field kept as a literal.                                    *)
C9_Witness ==
    /\ DefaultConfig
    /\ buf = TextMidQuote
    /\ ReachedEnd
    /\ out = << <<<<"a", "b", DQuote, "c">>, <<"d">>>> >>

----------------------------------------------------------------------------
(* Configuration *)

(* C10: a reader whose delimiter equals its quote character, or whose       *)
(* delimiter or quote character is LF or CR, is never constructed:          *)
(* construction fails before any character is read.                         *)
C10_FailFastConfiguration == pc # "new" => ValidConfig(delimiter, quotechar)

----------------------------------------------------------------------------
(* Embedded special characters *)

C11_Special(f) == \E i \in 1..Len(f) : f[i] \in {delimiter, quotechar, LF, CR}
C11_Quotes(f) == Cardinality({i \in 1..Len(f) : f[i] = quotechar})

(* Length of the text emitted for a field, and where the k-th field of a    *)
(* row starts in the emitted line.                                          *)
C11_Width(f) == IF C11_Special(f) THEN Len(f) + 2 + C11_Quotes(f) ELSE Len(f)
RECURSIVE C11_Offset(_, _)
C11_Offset(r, k) ==
    IF k = 1 THEN 0 ELSE C11_Offset(r, k - 1) + C11_Width(r[k - 1]) + 1

(* Exactly the fields of row r that hold a special character stand wrapped  *)
(* in quotes in text; the others stand verbatim.                            *)
C11_WrappedExactly(r, text) ==
    \A k \in 1..Len(r) :
        LET from == C11_Offset(r, k) + 1
            to == C11_Offset(r, k) + C11_Width(r[k])
        IN  /\ to <= Len(text)
            /\ IF C11_Special(r[k])
               THEN text[from] = quotechar /\ text[to] = quotechar
               ELSE SubSeq(text, from, to) = r[k]

(* C11: for every row with at least one field, whatever mix of delimiters,  *)
(* quote characters, LF and CR its fields hold, writerow followed by        *)
(* reading the emitted text yields exactly one row, equal to the original,  *)
(* and the writer has wrapped in quotes exactly the fields that hold such a *)
(* character.                                                               *)
C11_EmbeddedPreserved ==
    (Len(data) = 1 /\ data[1] # <<>>) =>
        /\ (phase = "write1" /\ widx = 1) => C11_WrappedExactly(data[1], buf)
        /\ AfterFirstRead => (Len(read_data1) = 1 /\ read_data1[1] = data[1])

(* C11 witness: the row ["x", "line1 LF line2"] has been written with its   *)
(* second field wrapped in quotes, and read back as one row.                *)
C11_Witness ==
    /\ phase = "write2"
    /\ data = DataEmbeddedNewline
    /\ read_data1 = DataEmbeddedNewline

----------------------------------------------------------------------------
(* Field count *)

(* The iteration about to run consumes a delimiter outside a quoted field:  *)
(* read outside quotes, or read right after the quote that closes a field.  *)
C12_DelimiterOutsideQuotes ==
    \/ ~in_quotes /\ ReadChar(pos) = delimiter
    \/ in_quotes /\ ReadChar(pos) = quotechar /\ ReadChar(pos + 1) = delimiter

(* The characters consumed for the i-th returned row. *)
C12_Consumed(i) == SubSeq(buf, (IF i = 1 THEN 0 ELSE closes[i - 1].at) + 1, closes[i].at)
C12_Count(s, c) == Cardinality({j \in 1..Len(s) : s[j] = c})

(* C12: a returned row has one field more than the delimiters consumed      *)
(* outside quoted fields while parsing it: each such delimiter adds one     *)
(* field to the row in progress, nothing else does, and returning adds the  *)
(* last one; so a,,c LF reads as [a, "", c], a line with no characters as   *)
(* [""], and no returned row has zero fields.                               *)
C12_FieldCount ==
    /\ [][(ValidConfig(delimiter, quotechar) /\ pc = "loop") =>
            IF pc' = "loop"
            THEN Len(row') = Len(row) + (IF C12_DelimiterOutsideQuotes THEN 1 ELSE 0)
            ELSE /\ ~C12_DelimiterOutsideQuotes
                 /\ out' # out => Len(Last(out')) = Len(row) + 1]_vars
    /\ [](pc = "loop" /\ pos = (IF out = <<>> THEN 0 ELSE Last(closes).at) => row = <<>>)
    /\ [](\A i \in 1..Len(out) :
            /\ Len(out[i]) >= 1
            /\ (ValidConfig(delimiter, quotechar) /\ C12_Count(C12_Consumed(i), quotechar) = 0)
                  => Len(out[i]) = 1 + C12_Count(C12_Consumed(i), delimiter))
    /\ []((DefaultConfig /\ buf = TextEmptyFields /\ ReachedEnd) =>
            out = << <<<<"a">>, <<>>, <<"c">>>> >>)
    /\ []((DefaultConfig /\ buf = <<LF>> /\ ReachedEnd) => out = << <<<<>>>> >>)

(* C12 witness: a,,c LF has been read to end-of-stream as one row of three  *)
(* fields, the middle one empty.                                            *)
C12_Witness ==
    /\ DefaultConfig
    /\ buf = TextEmptyFields
    /\ ReachedEnd
    /\ Len(out) = 1
    /\ Len(out[1]) = 3
    /\ out[1][2] = <<>>

----------------------------------------------------------------------------
(* End of the source with nothing accumulated *)

(* The iteration about to run reads the end of the source with an empty     *)
(* field buffer and no field in the row.                                    *)
C13_NothingAccumulatedAtEnd ==
    pc = "loop" /\ ReadChar(pos) = "" /\ field_chars = <<>> /\ row = <<>>

C13_SignalsEndOnly ==
    pc' = "idle" /\ out' = out /\ stops' = stops + 1 /\ _eof'

(* C13, as stated: whenever a call reaches the end of the source with an    *)
(* empty field buffer and no field in the row, it signals end-of-stream and *)
(* returns no row, whatever the quoting state (under a valid               *)
(* configuration).                                                          *)
C13_EndWithNothingAnyState ==
    [][(ValidConfig(delimiter, quotechar) /\ C13_NothingAccumulatedAtEnd)
          => C13_SignalsEndOnly]_vars

(* C13, amended: whenever a call that is outside a quoted field reaches the *)
(* end of the source with an empty field buffer and no field in the row, it *)
(* signals end-of-stream and returns no row; inside a quoted field (an      *)
(* opening quote was read) it returns the one-field row [""] instead.       *)
C13_EndWithNothingOutsideQuotes ==
    /\ [][(C13_NothingAccumulatedAtEnd /\ ~in_quotes) => C13_SignalsEndOnly]_vars
    /\ [][(C13_NothingAccumulatedAtEnd /\ in_quotes) =>
            (pc' = "idle" /\ out' = Append(out, << <<>> >>) /\ stops' = stops /\ _eof')]_vars

(* C13 witness: after a row closed by a terminator, the next call found the *)
(* end of the source at once and signalled end-of-stream.                   *)
C13_Witness ==
    /\ stops = 1
    /\ Len(out) = 1
    /\ closes[1] = [by |-> "nl", at |-> Len(buf)]
    /\ reads = Len(buf) + 1
    /\ _eof

----------------------------------------------------------------------------
(* Lenient recovery after a closing quote *)

(* The iteration about to run reads a quote inside a quoted field and then  *)
(* a character that is no quote, delimiter, LF, CR or end of the source.    *)
C14_OrdinaryAfterClosingQuote ==
    /\ pc = "loop"
    /\ in_quotes
    /\ ReadChar(pos) = quotechar
    /\ ReadChar(pos + 1) \notin {quotechar, delimiter, LF, CR, ""}

(* C14: the character that follows a closing quote, when it is neither a    *)
(* quote, the delimiter, LF, CR nor the end of the source, is appended to   *)
(* the same field, and the field goes on outside quotes with no error: the  *)
(* call is still in its loop, no row or field was closed; "ab"c,d reads as  *)
(* [abc, d].                                                                *)
C14_LenientRecovery ==
    /\ [][C14_OrdinaryAfterClosingQuote =>
            /\ pc' = "loop"
            /\ ~in_quotes'
            /\ field_chars' = Append(field_chars, ReadChar(pos + 1))
            /\ row' = row
            /\ out' = out
            /\ stops' = stops
            /\ pos' = pos + 2]_vars
    /\ []((DefaultConfig /\ buf = TextAfterClose /\ ReachedEnd) =>
            out = << <<<<"a", "b", "c">>, <<"d">>>> >>)
    /\ []((DefaultConfig /\ buf = <<DQuote, DQuote, "a", DQuote>> /\ ReachedEnd) =>
            out = << <<<<"a", DQuote>>>> >>)

(* C14 witness: "ab"c,d has been read to end-of-stream as [abc, d].         *)
C14_Witness ==
    /\ DefaultConfig
    /\ buf = TextAfterClose
    /\ ReachedEnd
    /\ out = << <<<<"a", "b", "c">>, <<"d">>>> >>

----------------------------------------------------------------------------
(* The documented state machine: Unquoted / Quoted / QuoteSeenInQuoted *)

(* The machine run over text from position i, one character per step, with  *)
(* delimiter d and quote character q: st is its state, fb the field buffer, *)
(* rw the row so far, acc the rows returned so far, each with the position  *)
(* at which it was returned. Every return resets the machine for the next   *)
(* call; the run ends at end-of-stream. quotedEndCloses chooses what the    *)
(* end of the source does in Quoted with nothing accumulated: FALSE signals *)
(* end-of-stream with no row (the transitions as listed), TRUE closes the   *)
(* field and the row.                                                       *)
RECURSIVE C15_Run(_, _, _, _, _, _, _, _, _)
C15_Run(text, d, q, quotedEndCloses, i, st, fb, rw, acc) ==
    LET ch == IF i < Len(text) THEN text[i + 1] ELSE ""
        closed == Append(rw, fb)
        returned(at) == Append(acc, [row |-> closed, at |-> at])
    IN  IF ch = ""
        THEN IF st = "QuoteSeenInQuoted" THEN returned(i)
             ELSE IF fb # <<>> \/ rw # <<>> THEN returned(i)
             ELSE IF st = "Quoted" /\ quotedEndCloses THEN returned(i)
             ELSE acc
        ELSE IF st = "Unquoted"
        THEN IF ch = q /\ fb = <<>>
             THEN C15_Run(text, d, q, quotedEndCloses, i + 1, "Quoted", fb, rw, acc)
             ELSE IF ch = d
             THEN C15_Run(text, d, q, quotedEndCloses, i + 1, "Unquoted", <<>>, closed, acc)
             ELSE IF ch \in {LF, CR}
             THEN C15_Run(text, d, q, quotedEndCloses, i + 1, "Unquoted", <<>>, <<>>,
                          returned(i + 1))
             ELSE C15_Run(text, d, q, quotedEndCloses, i + 1, "Unquoted", Append(fb, ch),
                          rw, acc)
        ELSE IF st = "Quoted"
        THEN IF ch = q
             THEN C15_Run(text, d, q, quotedEndCloses, i + 1, "QuoteSeenInQuoted", fb, rw, acc)
             ELSE C15_Run(text, d, q, quotedEndCloses, i + 1, "Quoted", Append(fb, ch), rw, acc)
        ELSE IF ch = q
             THEN C15_Run(text, d, q, quotedEndCloses, i + 1, "Quoted", Append(fb, q), rw, acc)
             ELSE IF ch = d
             THEN C15_Run(text, d, q, quotedEndCloses, i + 1, "Unquoted", <<>>, closed, acc)
             ELSE IF ch \in {LF, CR}
             THEN C15_Run(text, d, q, quotedEndCloses, i + 1, "Unquoted", <<>>, <<>>,
                          returned(i + 1))
             ELSE C15_Run(text, d, q, quotedEndCloses, i + 1, "Unquoted", Append(fb, ch),
                          rw, acc)

C15_Machine(text, d, q, quotedEndCloses) ==
    C15_Run(text, d, q, quotedEndCloses, 0, "Unquoted", <<>>, <<>>, <<>>)

(* What the reader has returned so far: each row with the source position   *)
(* at which its call returned.                                              *)
C15_Returned == [i \in 1..Len(out) |-> [row |-> out[i], at |-> closes[i].at]]

(* The reader has returned the first rows of m, at the same positions, and  *)
(* all of them once it has signalled end-of-stream.                         *)
C15_Follows(m) ==
    /\ Len(out) <= Len(m)
    /\ C15_Returned = SubSeq(m, 1, Len(out))
    /\ ReachedEnd => Len(out) = Len(m)

(* C15, as stated: on every character sequence the reader returns the same  *)
(* rows, and signals end-of-stream at the same point, as the three-state    *)
(* machine with the transitions listed in the documentation.                *)
C15_RefinesListedMachine ==
    (ValidConfig(delimiter, quotechar) /\ pc # "new")
        => C15_Follows(C15_Machine(buf, delimiter, quotechar, FALSE))

(* C15, amended: on every character sequence the reader returns the same    *)
(* rows, and signals end-of-stream at the same point, as the three-state    *)
(* machine with the transitions listed in the documentation, except that at *)
(* the end of the source in Quoted the machine closes the field and the row *)
(* also when the field buffer and the row are empty.                        *)
C15_RefinesMachine ==
    (ValidConfig(delimiter, quotechar) /\ pc # "new")
        => C15_Follows(C15_Machine(buf, delimiter, quotechar, TRUE))

(* C15 witness: a text with a doubled quote, a closing quote followed by an *)
(* ordinary character and no final terminator has been read to              *)
(* end-of-stream, as the machine reads it.                                  *)
C15_Witness ==
    /\ DefaultConfig
    /\ buf = TextAfterClose
    /\ ReachedEnd
    /\ C15_Returned = C15_Machine(buf, Comma, DQuote, TRUE)
    /\ Len(out) = 1

----------------------------------------------------------------------------
(* Forward-only consumption *)

(* C16: the source is consumed forward only, every character read once:     *)
(* each iteration moves the position on by the number of characters its     *)
(* reads returned, so the reads made equal the characters consumed plus the *)
(* one read that found the end of the source; and a row closed by a row     *)
(* terminator is returned with that terminator as the last character read,  *)
(* so the next call starts at the first character of the next row.          *)
C16_ForwardOnly ==
    /\ [][pos' >= pos /\ reads' >= reads /\ pos' - pos <= reads' - reads]_vars
    /\ [](pos <= Len(buf) /\ reads = pos + (IF _eof THEN 1 ELSE 0))
    /\ [](\A i \in 1..Len(closes) :
            /\ closes[i].at >= 1
            /\ closes[i].at > (IF i = 1 THEN 0 ELSE closes[i - 1].at)
            /\ closes[i].by = "nl" => buf[closes[i].at] \in {LF, CR})
    /\ []((pc = "idle" /\ out # <<>>) => pos = Last(closes).at)
    /\ []((DefaultConfig /\ pc = "idle" /\ Len(out) = 1 /\ buf = TextCRLF) => pos = 2)

(* C16 witness: a first row closed by a terminator has been returned with   *)
(* characters of the next row still unread, and a second row after it.      *)
C16_Witness ==
    /\ Len(out) = 2
    /\ closes[1].by = "nl"
    /\ closes[2].by = "nl"
    /\ closes[2].at = closes[1].at + 2
    /\ closes[2].at < Len(buf)
    /\ pc = "idle"
    /\ pos = closes[2].at

----------------------------------------------------------------------------
(* Special characters inside fields *)

C17_Separator(c) == c \in {delimiter, LF, CR}
C17_HasSeparator(f) == \E i \in 1..Len(f) : C17_Separator(f[i])

(* C17: under a valid configuration a delimiter, LF or CR gets into a field *)
(* only while the reader is inside a quoted field, and stays inside it:     *)
(* a step that appends one to the field buffer starts and ends in quotes,   *)
(* a step that closes a field or a row adds nothing to the field, and so    *)
(* the fields read from a text with no quote character hold none of them.   *)
C17_SeparatorsOnlyFromQuotes ==
    /\ [][(ValidConfig(delimiter, quotechar) /\ pc = "loop" /\ pc' = "loop"
              /\ field_chars' # <<>> /\ field_chars' # field_chars) =>
            /\ field_chars' = Append(field_chars, Last(field_chars'))
            /\ C17_Separator(Last(field_chars')) => (in_quotes /\ in_quotes')]_vars
    /\ [][(ValidConfig(delimiter, quotechar) /\ pc = "loop" /\ Len(row') = Len(row) + 1) =>
            Last(row') = field_chars]_vars
    /\ [][(ValidConfig(delimiter, quotechar) /\ pc = "loop" /\ out' # out) =>
            (out' = Append(out, Append(row, field_chars)))]_vars
    /\ []((ValidConfig(delimiter, quotechar) /\ ~Contains(buf, quotechar)) =>
            \A i \in 1..Len(out) : \A k \in 1..Len(out[i]) : ~C17_HasSeparator(out[i][k]))

(* C17 witness: a returned field holds the delimiter and a line feed, both  *)
(* read inside quotes.                                                      *)
C17_Witness ==
    /\ DefaultConfig
    /\ buf = <<DQuote, Comma, LF, DQuote>>
    /\ ReachedEnd
    /\ out = << <<<<Comma, LF>>>> >>

----------------------------------------------------------------------------
(* Reading what the writer wrote *)

Reading == phase \in {"read1", "read2"}

(* The iteration about to run reads a quote in the middle of an unquoted    *)
(* field.                                                                   *)
C18_QuoteMidField ==
    pc = "loop" /\ ~in_quotes /\ ReadChar(pos) = quotechar /\ field_chars # <<>>

(* The iteration about to run reads the quote that closes a quoted field.   *)
C18_ClosingQuote ==
    pc = "loop" /\ in_quotes /\ ReadChar(pos) = quotechar /\ ReadChar(pos + 1) # quotechar

(* The rows whose text is being read. *)
C18_Written == IF phase = "read1" THEN data ELSE read_data1

(* C18: while the reader reads text that writerows produced under the same  *)
(* valid configuration it never takes the lenient-recovery transition nor   *)
(* the literal-mid-field-quote transition, every closing quote is followed  *)
(* by the delimiter or by LF, and it returns as many rows as were written.  *)
C18_WriterOutputWellFormed ==
    /\ Reading =>
          /\ ValidConfig(delimiter, quotechar)
          /\ ~C14_OrdinaryAfterClosingQuote
          /\ ~C18_QuoteMidField
          /\ C18_ClosingQuote => ReadChar(pos + 1) \in {delimiter, LF}
          /\ writes = Len(C18_Written)
          /\ ReachedEnd => Len(out) = Len(C18_Written)
    /\ AfterFirstRead => Len(read_data1) = Len(data)

(* C18 witness: two written rows, one with a quoted field, have been read   *)
(* back as two rows.                                                        *)
C18_Witness ==
    /\ phase = "read1"
    /\ ReachedEnd
    /\ writes = 2
    /\ Len(out) = 2
    /\ \E i \in 1..Len(buf) : buf[i] = quotechar

----------------------------------------------------------------------------
(* writerows *)

Writes == phase \in {"write1", "write2"}

(* C19: writerows appends to the sink the lines of its rows, in the order   *)
(* of the sequence, one write per row: each step of it leaves the text      *)
(* already in the sink as a prefix, adds the line of the next row and reads *)
(* nothing; when it is done the sink holds the lines of all rows in order.  *)
(* (The model has no flush or close of the sink: the writer calls neither.) *)
C19_AppendInOrder ==
    /\ [][(Writes /\ widx' # widx /\ phase' = phase) =>
            /\ widx' = widx + 1
            /\ writes' = writes + 1
            /\ Len(buf') > Len(buf)
            /\ SubSeq(buf', 1, Len(buf)) = buf
            /\ SubSeq(buf', Len(buf) + 1, Len(buf')) =
                  C3_Joined(Writing[widx'], Len(Writing[widx'])) \o <<LF>>
            /\ pos' = pos
            /\ reads' = reads]_vars
    /\ [](Writes => (writes = widx /\ widx <= Len(Writing)))
    /\ [](Reading => (pos <= Len(buf) /\ buf = C3_Sink(C18_Written, Len(C18_Written))))

(* C19 witness: the second of two rows has been written after the line of   *)
(* the first.                                                               *)
C19_Witness ==
    /\ phase = "write1"
    /\ Len(data) = 2
    /\ widx = 2
    /\ writes = 2
    /\ data[1] # data[2]
    /\ buf = Line(data[1]) \o Line(data[2])

----------------------------------------------------------------------------
(* Two instances, each over a file object of its own, with their steps      *)
(* interleaved. The variables hold the instance that is running; other      *)
(* holds the one that is not.                                               *)

PairLen == 2       \* longest enumerated source text of the first instance

PairTexts == UNION {TextsOfLen(n) : n \in 0..PairLen}
PairSources == {TextEmptyFields, <<DQuote, "a", LF, DQuote, Comma, "b">>}
PairData == {DataEmbeddedNewline, << <<<<"a">>, <<Comma>>>>, <<<<DQuote>>>> >>}
PairConfigs == {<<Comma, DQuote>>, <<DQuote, Comma>>}

(* What belongs to the running instance: its attributes, the locals of its  *)
(* call in progress, its file object, and what it has returned or written.  *)
State ==
    [buf |-> buf, pos |-> pos, delimiter |-> delimiter, quotechar |-> quotechar,
     _eof |-> _eof, pc |-> pc, in_quotes |-> in_quotes, field_chars |-> field_chars,
     row |-> row, out |-> out, closes |-> closes, stops |-> stops, reads |-> reads,
     phase |-> phase, data |-> data, widx |-> widx, writes |-> writes]

(* A reader not yet constructed, over a source of its own *)
FreshReader(text) ==
    [buf |-> text, pos |-> 0, delimiter |-> Comma, quotechar |-> DQuote,
     _eof |-> FALSE, pc |-> "new", in_quotes |-> FALSE, field_chars |-> <<>>,
     row |-> <<>>, out |-> <<>>, closes |-> <<>>, stops |-> 0, reads |-> 0,
     phase |-> "reader", data |-> <<>>, widx |-> 0, writes |-> 0]

(* CustomCsvWriter(file_obj) over an empty sink of its own, about to be     *)
(* handed rows                                                              *)
FreshWriter(rows) ==
    [buf |-> <<>>, pos |-> 0, delimiter |-> Comma, quotechar |-> DQuote,
     _eof |-> FALSE, pc |-> "new", in_quotes |-> FALSE, field_chars |-> <<>>,
     row |-> <<>>, out |-> <<>>, closes |-> <<>>, stops |-> 0, reads |-> 0,
     phase |-> "write1", data |-> rows, widx |-> 0, writes |-> 0]

(* Mutant: _eof is an attribute of the class, shared by the instances. *)
EofOf_ClassAttribute(inst) == _eof

(* self._eof of an instance that is not running *)
EofOf(inst) == inst.st._eof

InitPair ==
    /\ buf \in PairTexts
    /\ pos = 0
    /\ delimiter = Comma
    /\ quotechar = DQuote
    /\ _eof = FALSE
    /\ pc = "new"
    /\ in_quotes = FALSE
    /\ field_chars = <<>>
    /\ row = <<>>
    /\ out = <<>>
    /\ closes = <<>>
    /\ stops = 0
    /\ reads = 0
    /\ phase = "reader"
    /\ data = <<>>
    /\ widx = 0
    /\ writes = 0
    /\ read_data1 = <<>>
    /\ other \in {[id |-> 2, st |-> FreshReader(t)] : t \in PairSources}
                 \cup {[id |-> 2, st |-> FreshWriter(R)] : R \in PairData}

PairNew ==
    /\ phase = "reader"
    /\ \E c \in PairConfigs : Construct(c[1], c[2])
    /\ UNCHANGED <<buf, pos>>
    /\ UNCHANGED driverVars
PairNextRow == phase = "reader" /\ NextRow
PairLoopStep == phase = "reader" /\ LoopStep
PairWrite == phase = "write1" /\ WriteNext

(* The running instance stops where it is and the other one goes on from    *)
(* where it stopped.                                                        *)
Switch ==
    /\ other.id # 0
    /\ other' = [id |-> 3 - other.id, st |-> State]
    /\ buf' = other.st.buf
    /\ pos' = other.st.pos
    /\ delimiter' = other.st.delimiter
    /\ quotechar' = other.st.quotechar
    /\ _eof' = EofOf(other)
    /\ pc' = other.st.pc
    /\ in_quotes' = other.st.in_quotes
    /\ field_chars' = other.st.field_chars
    /\ row' = other.st.row
    /\ out' = other.st.out
    /\ closes' = other.st.closes
    /\ stops' = other.st.stops
    /\ reads' = other.st.reads
    /\ phase' = other.st.phase
    /\ data' = other.st.data
    /\ widx' = other.st.widx
    /\ writes' = other.st.writes
    /\ UNCHANGED read_data1

NextPair == PairNew \/ PairNextRow \/ PairLoopStep \/ PairWrite \/ Switch

Pair == InitPair /\ [][NextPair]_vars

(* C20: with the steps of two instances over file objects of their own      *)
(* interleaved in any way, no step of the running instance changes anything *)
(* of the other, which goes on exactly from where it stopped; and each      *)
(* instance, whenever it runs, has returned the rows, reached the           *)
(* end-of-stream point or written the sink text that it has when run alone, *)
(* under the configuration it was constructed with.                         *)
C20_InstanceIndependence ==
    /\ [][\/ other' = other
          \/ (other'.st = State /\ other'.id # other.id /\ State' = other.st)]_vars
    /\ [][(other' = other /\ pc # "new") =>
             (delimiter' = delimiter /\ quotechar' = quotechar)]_vars
    /\ [][(other' = other /\ phase = "reader") => buf' = buf]_vars
    /\ []((phase = "reader" /\ pc # "new") =>
             /\ C15_Follows(C15_Machine(buf, delimiter, quotechar, TRUE))
             /\ _eof => pos = Len(buf)
             /\ ReachedEnd => _eof)
    /\ []((phase = "reader" /\ pc = "new") => (~_eof /\ reads = 0 /\ out = <<>>))
    /\ [](phase = "write1" =>
             /\ DefaultConfig
             /\ buf = C3_Sink(data, widx)
             /\ writes = widx
             /\ ~_eof /\ reads = 0 /\ pos = 0)

(* C20 witness: two readers with different configurations are both in the   *)
(* middle of a row, the one that is not running inside a quoted field.     *)
C20_Witness ==
    /\ other.id = 1
    /\ other.st.pc = "loop"
    /\ other.st.reads >= 1
    /\ other.st.in_quotes
    /\ pc = "loop"
    /\ reads >= 1
    /\ ~in_quotes
    /\ quotechar # other.st.quotechar

====
